---------------------------- MODULE Spec2Model ----------------------------
(***************************************************************************)
(* Model of scripts/update_obsidian_versions.py: the release-metadata      *)
(* reconciler that rewrites manifest.json and versions.json.               *)
(*                                                                         *)
(* Representation.                                                         *)
(*   - A Python str is a sequence of one-character strings, so that        *)
(*     split/isdigit/int and Python's code-point string order can be       *)
(*     computed as the code computes them.                                 *)
(*   - A JSON scalar / Python value is a record [kind, text]: kind "str"   *)
(*     for a string, "num" for an integer (text = its decimal digits),     *)
(*     "none" for None.  str() turns any of them into kind "str".          *)
(*   - A Python dict (insertion ordered) is a sequence of [k, v] records   *)
(*     with pairwise distinct k.                                           *)
(*   - A file is [kind, doc]: kind "missing" (path does not exist),        *)
(*     "invalid" (text that json.loads rejects, e.g. an empty or cut-off   *)
(*     file), "array" (valid JSON whose root is not an object), "object"   *)
(*     (doc is the dict json.loads returns).                               *)
(***************************************************************************)
EXTENDS Integers, Sequences, FiniteSets, TLC

VARIABLES
    manifestFile,      \* content of the file at args.manifest
    versionsFile,      \* content of the file at args.versions
    pc,                \* position of main: "idle", "computed", "manifest_written", "exit"
    args,              \* parse_args() result: [version, min_app_version, record_every_release]
    manifest,          \* main's local dict `manifest`
    versions,          \* main's local dict `versions`
    record_note,       \* main's local `record_note`
    exc,               \* exception that ended the run ("none" while running / on success)
    stdout,            \* lines printed by the run (empty unless the prints were reached)
    oldManifestFile,   \* history variable: manifestFile when the run started
    oldVersionsFile,   \* history variable: versionsFile when the run started
    first,             \* history variable: outcome of the first of two identical runs
    keys_in,           \* input of a direct call of latest_recorded_version
    latest_out         \* its result

vars == <<manifestFile, versionsFile, pc, args, manifest, versions, record_note,
          exc, stdout, oldManifestFile, oldVersionsFile, first, keys_in, latest_out>>

----------------------------------------------------------------------------
(* Bounds of the model *)

\* largest number of entries of a versions.json the model starts from
MaxKeys == 2
\* largest number of keys handed to a direct call of latest_recorded_version
MaxLatestKeys == 3

----------------------------------------------------------------------------
(* Python values *)

S(t) == [kind |-> "str", text |-> t]
N(t) == [kind |-> "num", text |-> t]
None == [kind |-> "none", text |-> <<>>]

\* str(v): a str stays itself, an int becomes its decimal text, None becomes "None"
py_str(v) ==
    IF v.kind = "none" THEN S(<<"N", "o", "n", "e">>) ELSE S(v.text)

\* truthiness of an optional str: None and "" are falsy
truthy(v) == v.kind # "none" /\ v.text # <<>>

\* ord(c) for the characters the model uses
ord(c) ==
    CASE c = "-" -> 45
      [] c = "." -> 46
      [] c = "0" -> 48
      [] c = "1" -> 49
      [] c = "5" -> 53
      [] c = "6" -> 54
      [] c = "9" -> 57
      [] c = "x" -> 120

Digits == {"0", "1", "5", "6", "9"}

\* Python's str < str: lexicographic by code point, a proper prefix is smaller
RECURSIVE str_lt(_, _)
str_lt(a, b) ==
    IF b = <<>> THEN FALSE
    ELSE IF a = <<>> THEN TRUE
    ELSE IF ord(Head(a)) # ord(Head(b)) THEN ord(Head(a)) < ord(Head(b))
    ELSE str_lt(Tail(a), Tail(b))

\* Python's tuple < tuple on tuples of ints
RECURSIVE tuple_lt(_, _)
tuple_lt(a, b) ==
    IF b = <<>> THEN FALSE
    ELSE IF a = <<>> THEN TRUE
    ELSE IF Head(a) # Head(b) THEN Head(a) < Head(b)
    ELSE tuple_lt(Tail(a), Tail(b))

\* s.split(sep, maxsplit=1)[0]: the text before the first sep (all of s if none)
RECURSIVE split_first(_, _)
split_first(s, sep) ==
    IF s = <<>> \/ Head(s) = sep THEN <<>>
    ELSE <<Head(s)>> \o split_first(Tail(s), sep)

\* s.split(sep): never empty, "" gives [""]
RECURSIVE split(_, _)
split(s, sep) ==
    IF s = <<>> THEN << <<>> >>
    ELSE IF Head(s) = sep THEN << <<>> >> \o split(Tail(s), sep)
    ELSE LET rest == split(Tail(s), sep)
         IN  << <<Head(s)>> \o Head(rest) >> \o Tail(rest)

\* part.isdigit(): non-empty and every character a digit
isdigit(part) == part # <<>> /\ \A i \in 1..Len(part) : part[i] \in Digits

\* int(part) for a string of digits
RECURSIVE int(_)
int(part) ==
    IF part = <<>> THEN 0
    ELSE 10 * int(SubSeq(part, 1, Len(part) - 1)) + (ord(part[Len(part)]) - 48)

----------------------------------------------------------------------------
(* Version ordering *)

NoCore == [ok |-> FALSE, values |-> <<>>]

\* mutant: the segments are kept as their code points instead of int(part)
parse_semver_core_noint(version) ==
    LET parts == split(split_first(version, "-"), ".")
    IN  IF parts = <<>> THEN NoCore
        ELSE IF \E i \in 1..Len(parts) : ~isdigit(parts[i]) THEN NoCore
        ELSE [ok |-> TRUE, values |-> [i \in 1..Len(parts) |-> ord(parts[i][1])]]

parse_semver_core(version) ==
    LET parts == split(split_first(version, "-"), ".")
    IN  IF parts = <<>> THEN NoCore
        ELSE IF \E i \in 1..Len(parts) : ~isdigit(parts[i]) THEN NoCore
        ELSE [ok |-> TRUE, values |-> [i \in 1..Len(parts) |-> int(parts[i])]]

version_sort_key(version) ==
    LET parsed == parse_semver_core(version)
    IN  IF ~parsed.ok THEN <<1, <<0>>, version>>
        ELSE <<0, parsed.values, version>>

\* Python's tuple < tuple on two sort keys (int, tuple of int, str)
key_lt(a, b) ==
    IF a[1] # b[1] THEN a[1] < b[1]
    ELSE IF a[2] # b[2] THEN tuple_lt(a[2], b[2])
    ELSE str_lt(a[3], b[3])

\* sorted(xs, key=version_sort_key): stable, ascending
RECURSIVE insert_sorted(_, _)
insert_sorted(sortedSeq, x) ==
    IF sortedSeq = <<>> THEN <<x>>
    ELSE IF key_lt(version_sort_key(x), version_sort_key(Head(sortedSeq)))
         THEN <<x>> \o sortedSeq
         ELSE <<Head(sortedSeq)>> \o insert_sorted(Tail(sortedSeq), x)

RECURSIVE sorted(_)
sorted(xs) ==
    IF xs = <<>> THEN <<>>
    ELSE insert_sorted(sorted(SubSeq(xs, 1, Len(xs) - 1)), xs[Len(xs)])

latest_recorded_version(keySeq) ==
    LET ordered == sorted(keySeq)
    IN  IF ordered # <<>> THEN S(ordered[Len(ordered)]) ELSE None

----------------------------------------------------------------------------
(* dicts *)

dict_keys(d) == [i \in 1..Len(d) |-> d[i].k]
KeySet(d) == {d[i].k : i \in 1..Len(d)}
dict_has(d, key) == key \in KeySet(d)
dict_index(d, key) == CHOOSE i \in 1..Len(d) : d[i].k = key
dict_item(d, key) == d[dict_index(d, key)].v

\* d.get(key, None)
dict_get(d, key) == IF dict_has(d, key) THEN dict_item(d, key) ELSE None

\* d[key] = value: an existing key keeps its position, a new key goes last
dict_set(d, key, value) ==
    IF dict_has(d, key)
    THEN [i \in 1..Len(d) |-> IF d[i].k = key THEN [k |-> key, v |-> value] ELSE d[i]]
    ELSE Append(d, [k |-> key, v |-> value])

\* {str(k): str(v) for k, v in d.items()}; the keys of a loaded JSON object
\* and args.version are str already, so str(k) is k
str_items(d) == [i \in 1..Len(d) |-> [k |-> d[i].k, v |-> py_str(d[i].v)]]

\* mutant: the dict is returned in its own order
ordered_versions_unsorted(d) == d

ordered_versions(d) ==
    LET ks == sorted(dict_keys(d))
    IN  [i \in 1..Len(ks) |-> [k |-> ks[i], v |-> dict_item(d, ks[i])]]

----------------------------------------------------------------------------
(* Files *)

Missing == [kind |-> "missing", doc |-> <<>>]
Invalid == [kind |-> "invalid", doc |-> <<>>]
Array == [kind |-> "array", doc |-> <<>>]
Object(d) == [kind |-> "object", doc |-> d]

\* load_json(path): the exception it raises ("none" if it returns) and the payload
load_json(file) ==
    IF file.kind = "missing" THEN [exc |-> "FileNotFoundError", payload |-> <<>>]
    ELSE IF file.kind = "invalid" THEN [exc |-> "JSONDecodeError", payload |-> <<>>]
    ELSE IF file.kind # "object" THEN [exc |-> "ValueError", payload |-> <<>>]
    ELSE [exc |-> "none", payload |-> file.doc]

\* write_json(path, payload): Path.write_text opens the file for writing (which
\* truncates it) and then writes the text.  It returns with the new content on
\* disk, or raises OSError from open() with the file untouched, or raises
\* OSError from write()/close() with the file already truncated.
write_json(file, payload) ==
    { [file |-> Object(payload), exc |-> "none"],
      [file |-> file, exc |-> "OSError"],
      [file |-> Invalid, exc |-> "OSError"] }

----------------------------------------------------------------------------
(* The computation of main between loading and writing *)

\* mutant: the override is applied whenever it was passed, also when empty
update_manifest_any_override(m, a) ==
    LET m1 == dict_set(m, "version", S(a.version))
    IN  IF a.min_app_version # None
        THEN dict_set(m1, "minAppVersion", a.min_app_version)
        ELSE m1

\* lines 89-91: manifest["version"] = args.version; the override when truthy
update_manifest(m, a) ==
    LET m1 == dict_set(m, "version", S(a.version))
    IN  IF truthy(a.min_app_version)
        THEN dict_set(m1, "minAppVersion", a.min_app_version)
        ELSE m1

\* mutant: the wrong manifest field is read
effective_min_of_version(m) == py_str(dict_item(m, "version"))

\* line 92
effective_min(m) == py_str(dict_item(m, "minAppVersion"))

\* line 95: versions.get(previous_latest_key, None) if previous_latest_key else None
previous_latest_min(v, previous_latest_key) ==
    IF truthy(previous_latest_key) THEN dict_get(v, previous_latest_key.text) ELSE None

\* mutant: the target version being a recorded key is not looked at
should_record_nokey(a, v, min_app_version) ==
    LET previous_latest_key == latest_recorded_version(dict_keys(v))
    IN  \/ a.record_every_release
        \/ previous_latest_key = None
        \/ previous_latest_min(v, previous_latest_key) # min_app_version

\* lines 94-102
should_record(a, v, min_app_version) ==
    LET previous_latest_key == latest_recorded_version(dict_keys(v))
    IN  \/ a.record_every_release
        \/ dict_has(v, a.version)
        \/ previous_latest_key = None
        \/ previous_latest_min(v, previous_latest_key) # min_app_version

\* lines 105-106; m is the manifest after update_manifest
record_entry(v, a, m) ==
    ordered_versions(str_items(dict_set(v, a.version, effective_min(m))))

NoteRecorded == "added/updated"
NoteSkipped == "skipped (minAppVersion unchanged from latest recorded version)"

----------------------------------------------------------------------------
(* Inputs *)

V_1_9 == <<"1", ".", "9">>
V_1_10 == <<"1", ".", "1", "0">>
V_empty == <<>>
T15 == <<"1", "5">>
T16 == <<"1", "6">>

\* --version values; "" is what `--version ""` passes
TargetVersions == {V_1_9, V_1_10, V_empty}
\* --min-app-version: absent, empty, or a value
Overrides == {None, S(<<>>), S(T16)}
ArgsSet == [version : TargetVersions, min_app_version : Overrides,
            record_every_release : BOOLEAN]

\* values a hand-written versions.json / manifest.json holds for a minimum version
LoadedMins == {S(T15), N(T15)}

HistoryDictsOfLen(n) ==
    {d \in [1..n -> [k : TargetVersions, v : LoadedMins]] :
        \A i, j \in 1..n : i # j => d[i].k # d[j].k}
HistoryDicts == UNION {HistoryDictsOfLen(n) : n \in 0..MaxKeys}

IdItem == [k |-> "id", v |-> S(<<"x">>)]
ManifestDicts ==
    {<<IdItem>> \o ver \o min :
        ver \in {<<>>, <<[k |-> "version", v |-> S(V_1_9)]>>},
        min \in {<<>>} \cup {<<[k |-> "minAppVersion", v |-> x]>> : x \in LoadedMins}}

ManifestFiles == {Missing, Invalid, Array} \cup {Object(d) : d \in ManifestDicts}
VersionsFiles == {Missing, Invalid, Array} \cup {Object(d) : d \in HistoryDicts}

NoFirst == [ran |-> FALSE, exc |-> "none", stdout |-> <<>>,
            manifestFile |-> Missing, versionsFile |-> Missing]

\* keys for direct calls of latest_recorded_version
LatestKeys ==
    { <<"1">>, V_1_9, <<"0", "1", ".", "9">>, <<"1", ".", "9", "-", "x">>,
      V_1_10, V_empty, <<"x">> }
LatestKeySeqs ==
    UNION {{ks \in [1..n -> LatestKeys] : \A i, j \in 1..n : i # j => ks[i] # ks[j]} :
             n \in 0..MaxLatestKeys}

----------------------------------------------------------------------------
(* State machine *)

Init ==
    /\ manifestFile \in ManifestFiles
    /\ versionsFile \in VersionsFiles
    /\ pc = "idle"
    /\ args = [version |-> V_1_9, min_app_version |-> None, record_every_release |-> FALSE]
    /\ manifest = <<>>
    /\ versions = <<>>
    /\ record_note = ""
    /\ exc = "none"
    /\ stdout = <<>>
    /\ oldManifestFile = manifestFile
    /\ oldVersionsFile = versionsFile
    /\ first = NoFirst
    /\ keys_in = <<>>
    /\ latest_out = None

\* an exception leaves main before any write
Raise(e) ==
    /\ pc' = "exit"
    /\ exc' = e
    /\ manifest' = <<>>
    /\ versions' = <<>>
    /\ record_note' = ""
    /\ UNCHANGED <<manifestFile, versionsFile>>

\* mutant: the manifest is written back right after it was loaded, before
\* versions.json is loaded and before the required fields are checked
Run_write_before_validate(a) ==
    /\ args' = a
    /\ stdout' = <<>>
    /\ oldManifestFile' = manifestFile
    /\ oldVersionsFile' = versionsFile
    /\ UNCHANGED <<keys_in, latest_out>>
    /\ LET lm == load_json(manifestFile)
           lv == load_json(versionsFile)
           early == Object(dict_set(lm.payload, "version", S(a.version)))
           RaiseLate(e) ==
               /\ pc' = "exit"
               /\ exc' = e
               /\ manifest' = <<>>
               /\ versions' = <<>>
               /\ record_note' = ""
               /\ manifestFile' = early
               /\ UNCHANGED versionsFile
       IN  IF lm.exc # "none" THEN Raise(lm.exc)
           ELSE IF lv.exc # "none" THEN RaiseLate(lv.exc)
           ELSE IF ~dict_has(lm.payload, "version") \/ ~dict_has(lm.payload, "minAppVersion")
                THEN RaiseLate("KeyError")
           ELSE LET m == update_manifest(lm.payload, a)
                    rec == should_record(a, lv.payload, effective_min(m))
                IN  /\ manifest' = m
                    /\ versions' = IF rec THEN record_entry(lv.payload, a, m) ELSE lv.payload
                    /\ record_note' = IF rec THEN NoteRecorded ELSE NoteSkipped
                    /\ pc' = "computed"
                    /\ exc' = "none"
                    /\ UNCHANGED <<manifestFile, versionsFile>>

\* lines 81-109: parse the arguments, load both files, validate, compute
Run(a) ==
    /\ args' = a
    /\ stdout' = <<>>
    /\ oldManifestFile' = manifestFile
    /\ oldVersionsFile' = versionsFile
    /\ UNCHANGED <<keys_in, latest_out>>
    /\ LET lm == load_json(manifestFile)
           lv == load_json(versionsFile)
       IN  IF lm.exc # "none" THEN Raise(lm.exc)
           ELSE IF lv.exc # "none" THEN Raise(lv.exc)
           ELSE IF ~dict_has(lm.payload, "version") \/ ~dict_has(lm.payload, "minAppVersion")
                THEN Raise("KeyError")
           ELSE LET m == update_manifest(lm.payload, a)
                    rec == should_record(a, lv.payload, effective_min(m))
                IN  /\ manifest' = m
                    /\ versions' = IF rec THEN record_entry(lv.payload, a, m) ELSE lv.payload
                    /\ record_note' = IF rec THEN NoteRecorded ELSE NoteSkipped
                    /\ pc' = "computed"
                    /\ exc' = "none"
                    /\ UNCHANGED <<manifestFile, versionsFile>>

Start(a) ==
    /\ pc \in {"idle", "exit"}
    /\ Run(a)
    /\ UNCHANGED first

\* line 111
WriteManifest ==
    /\ pc = "computed"
    /\ \E w \in write_json(manifestFile, manifest) :
          /\ manifestFile' = w.file
          /\ exc' = w.exc
          /\ pc' = IF w.exc = "none" THEN "manifest_written" ELSE "exit"
    /\ UNCHANGED <<versionsFile, args, manifest, versions, record_note, stdout,
                   oldManifestFile, oldVersionsFile, first, keys_in, latest_out>>

\* lines 112-116
WriteVersions ==
    /\ pc = "manifest_written"
    /\ \E w \in write_json(versionsFile, str_items(versions)) :
          /\ versionsFile' = w.file
          /\ exc' = w.exc
          /\ stdout' = IF w.exc = "none"
                       THEN <<dict_item(manifest, "version"),
                              dict_item(manifest, "minAppVersion"), record_note>>
                       ELSE <<>>
    /\ pc' = "exit"
    /\ UNCHANGED <<manifestFile, args, manifest, versions, record_note,
                   oldManifestFile, oldVersionsFile, first, keys_in, latest_out>>

Next ==
    \/ \E a \in ArgsSet : Start(a)
    \/ WriteManifest
    \/ WriteVersions

Spec == Init /\ [][Next]_vars

(* Two runs in succession with the same arguments *)

FirstRun(a) ==
    /\ pc = "idle"
    /\ Run(a)
    /\ UNCHANGED first

SecondRun ==
    /\ pc = "exit"
    /\ ~first.ran
    /\ Run(args)
    /\ first' = [ran |-> TRUE, exc |-> exc, stdout |-> stdout,
                 manifestFile |-> manifestFile, versionsFile |-> versionsFile]

NextRerun ==
    \/ \E a \in ArgsSet : FirstRun(a)
    \/ WriteManifest
    \/ WriteVersions
    \/ SecondRun

SpecRerun == Init /\ [][NextRerun]_vars

(* Direct calls of latest_recorded_version *)

InitLatest ==
    /\ manifestFile = Missing
    /\ versionsFile = Missing
    /\ pc = "idle"
    /\ args = [version |-> V_1_9, min_app_version |-> None, record_every_release |-> FALSE]
    /\ manifest = <<>>
    /\ versions = <<>>
    /\ record_note = ""
    /\ exc = "none"
    /\ stdout = <<>>
    /\ oldManifestFile = Missing
    /\ oldVersionsFile = Missing
    /\ first = NoFirst
    /\ keys_in = <<>>
    /\ latest_out = None

CallLatest(ks) ==
    /\ keys_in' = ks
    /\ latest_out' = latest_recorded_version(ks)
    /\ UNCHANGED <<manifestFile, versionsFile, pc, args, manifest, versions, record_note,
                   exc, stdout, oldManifestFile, oldVersionsFile, first>>

NextLatest == \E ks \in LatestKeySeqs : CallLatest(ks)

SpecLatest == InitLatest /\ [][NextLatest]_vars

----------------------------------------------------------------------------
(* Vocabulary of the properties.  These are stated from the description of  *)
(* the behaviour, not through parse_semver_core / version_sort_key.         *)

Exited == pc = "exit"
Succeeded == pc = "exit" /\ exc = "none"
Reported == IF stdout = <<>> THEN "" ELSE stdout[3]

LoadedManifest == oldManifestFile.doc
LoadedHistory == oldVersionsFile.doc
WrittenManifest == manifestFile.doc
WrittenHistory == versionsFile.doc

\* well-formed: every dot-separated segment before the first "-" is all digits
Segments(v) == split(split_first(v, "-"), ".")
WellFormed(v) == \A i \in 1..Len(Segments(v)) : isdigit(Segments(v)[i])
NumericCore(v) == [i \in 1..Len(Segments(v)) |-> int(Segments(v)[i])]

\* a comes strictly before b in the documented version order
Before(a, b) ==
    \/ WellFormed(a) /\ ~WellFormed(b)
    \/ /\ WellFormed(a) /\ WellFormed(b)
       /\ \/ tuple_lt(NumericCore(a), NumericCore(b))
          \/ NumericCore(a) = NumericCore(b) /\ str_lt(a, b)
    \/ ~WellFormed(a) /\ ~WellFormed(b) /\ str_lt(a, b)

\* the key with the greatest sort key of a non-empty dict
GreatestKey(d) == CHOOSE k \in KeySet(d) : \A j \in KeySet(d) : j = k \/ Before(j, k)

\* keys in non-decreasing order, malformed ones after the well-formed ones
KeysAscending(d) ==
    \A i, j \in 1..Len(d) :
        i < j => /\ ~Before(d[j].k, d[i].k)
                 /\ (WellFormed(d[j].k) => WellFormed(d[i].k))

\* the manifest minAppVersion after applying a non-empty override, as a string
EffectiveMinimum ==
    IF args.min_app_version # None /\ args.min_app_version.text # <<>>
    THEN args.min_app_version
    ELSE py_str(dict_item(LoadedManifest, "minAppVersion"))

\* the four conditions under which an entry is to be recorded
RecordCondition ==
    \/ args.record_every_release
    \/ args.version \in KeySet(LoadedHistory)
    \/ LoadedHistory = <<>>
    \/ EffectiveMinimum # dict_item(LoadedHistory, GreatestKey(LoadedHistory))

----------------------------------------------------------------------------
(* C1 *)

\* C1: in every successful run the entry is reported 'added/updated' exactly
\* when the flag is set, or the target version is a loaded key, or the loaded
\* history is empty, or the effective minimum differs from the loaded value at
\* the key with the greatest sort key; otherwise it is reported 'skipped'.
C1_RecordIffCondition ==
    Succeeded =>
        /\ (Reported = NoteRecorded) <=> RecordCondition
        /\ (Reported = NoteSkipped) <=> ~RecordCondition

----------------------------------------------------------------------------
(* C2 *)

\* C2 as stated: after every successful run, recorded or skipped, the keys
\* of the written history are in non-decreasing sort-key order with every
\* malformed key after every well-formed key.
C2_WrittenAlwaysSorted ==
    Succeeded => KeysAscending(WrittenHistory)

\* C2 amended: after a successful run that recorded, the written keys are in
\* non-decreasing sort-key order with malformed keys last; after a successful
\* run that skipped, the keys are written in the order they were loaded in.
C2_SortedWhenRecorded ==
    Succeeded =>
        /\ Reported = NoteRecorded => KeysAscending(WrittenHistory)
        /\ Reported = NoteSkipped => dict_keys(WrittenHistory) = dict_keys(LoadedHistory)

\* a recording run that had to reorder: loaded out of order, a malformed key present
C2_Witness ==
    /\ Succeeded
    /\ Reported = NoteRecorded
    /\ ~KeysAscending(LoadedHistory)
    /\ Len(WrittenHistory) >= 3
    /\ \E k \in KeySet(WrittenHistory) : ~WellFormed(k)

----------------------------------------------------------------------------
(* C3 *)

LoadFailures == {"FileNotFoundError", "ValueError", "KeyError"}

\* C3: a run that fails because a path does not exist, a root value is not an
\* object, or the manifest lacks 'version' or 'minAppVersion' leaves both
\* files with the content they had before the run.
C3_LoadFailureWritesNothing ==
    (Exited /\ exc \in LoadFailures) =>
        /\ manifestFile = oldManifestFile
        /\ versionsFile = oldVersionsFile

\* the versions file is missing while the manifest is a valid one
C3_Witness ==
    /\ Exited
    /\ exc = "FileNotFoundError"
    /\ oldVersionsFile = Missing
    /\ manifestFile.kind = "object"
    /\ dict_has(manifestFile.doc, "version")
    /\ dict_has(manifestFile.doc, "minAppVersion")
    /\ dict_item(manifestFile.doc, "version") # S(args.version)

----------------------------------------------------------------------------
(* C4 *)

\* C4: whenever a run has ended, with or without an error, either both files
\* hold their content from before the run or both hold the content the run
\* computed; never the manifest rewritten and the history not.
C4_NoPartialWrites ==
    Exited =>
        \/ manifestFile = oldManifestFile /\ versionsFile = oldVersionsFile
        \/ /\ manifest # <<>>
           /\ manifestFile = Object(manifest)
           /\ versionsFile = Object(str_items(versions))

----------------------------------------------------------------------------
(* C5 *)

BothRunsSucceeded ==
    /\ first.ran
    /\ first.exc = "none"
    /\ Succeeded
    /\ ~args.record_every_release

\* C5 as stated: the second of two identical runs without the flag leaves
\* the manifest and the history as the first run wrote them and reports
\* 'skipped'.
C5_SecondRunSkipped ==
    BothRunsSucceeded =>
        /\ manifestFile = first.manifestFile
        /\ versionsFile = first.versionsFile
        /\ Reported = NoteSkipped

\* C5 amended: the second of two identical runs without the flag leaves the
\* manifest and the history as the first run wrote them, and it reports what
\* the first run reported: 'skipped' if the first run skipped, 'added/updated'
\* if the first run recorded (the target version is then a recorded key).
C5_SecondRunRepeatsFirst ==
    BothRunsSucceeded =>
        /\ manifestFile = first.manifestFile
        /\ versionsFile = first.versionsFile
        /\ Reported = first.stdout[3]
        /\ Reported \in {NoteRecorded, NoteSkipped}

\* the second run ended after a first run that recorded because the minimum changed
C5_Witness ==
    /\ BothRunsSucceeded
    /\ first.stdout[3] = NoteRecorded
    /\ Reported = NoteRecorded
    /\ Len(WrittenHistory) >= 2

----------------------------------------------------------------------------
(* C6 *)

\* C6: in every successful run the written manifest has 'version' equal to
\* the target version, 'minAppVersion' equal to the override when one is
\* supplied and non-empty and to its loaded value otherwise, and every other
\* key with its loaded value; no key is added or removed.
C6_ManifestFrame ==
    Succeeded =>
        /\ manifestFile.kind = "object"
        /\ dict_item(WrittenManifest, "version") = S(args.version)
        /\ dict_item(WrittenManifest, "minAppVersion") =
              IF args.min_app_version # None /\ args.min_app_version.text # <<>>
              THEN args.min_app_version
              ELSE dict_item(LoadedManifest, "minAppVersion")
        /\ KeySet(WrittenManifest) = KeySet(LoadedManifest)
        /\ \A key \in KeySet(LoadedManifest) \ {"version", "minAppVersion"} :
              dict_item(WrittenManifest, key) = dict_item(LoadedManifest, key)

\* an empty override was passed and the loaded, non-string minimum was kept
C6_Witness ==
    /\ Succeeded
    /\ args.min_app_version = S(<<>>)
    /\ dict_item(WrittenManifest, "minAppVersion") = N(T15)
    /\ dict_item(WrittenManifest, "version") # dict_item(LoadedManifest, "version")
    /\ dict_has(WrittenManifest, "id")

----------------------------------------------------------------------------
(* C7 *)

\* C7: after any run, successful or failing, every key the history file had
\* before the run is still in it, and every key other than the run's target
\* version has its former value (as a string).
C7_EntriesNeverRemoved ==
    (Exited /\ oldVersionsFile.kind = "object") =>
        /\ versionsFile.kind = "object"
        /\ \A key \in KeySet(LoadedHistory) :
              /\ key \in KeySet(WrittenHistory)
              /\ key # args.version =>
                    py_str(dict_item(WrittenHistory, key)) = py_str(dict_item(LoadedHistory, key))

----------------------------------------------------------------------------
(* C8 *)

\* C8: when the flag is unset, the target version is not a loaded key, the
\* loaded history is not empty and the effective minimum equals the value at
\* the latest recorded key, the run reports 'skipped' and writes the history
\* as it was loaded: the same keys in the same order, each with its loaded
\* value (compared in string form), and no entry for the target version.
C8_SkipLeavesHistory ==
    (Succeeded /\ ~RecordCondition) =>
        /\ Reported = NoteSkipped
        /\ dict_keys(WrittenHistory) = dict_keys(LoadedHistory)
        /\ \A key \in KeySet(LoadedHistory) :
              py_str(dict_item(WrittenHistory, key)) = py_str(dict_item(LoadedHistory, key))
        /\ args.version \notin KeySet(WrittenHistory)

----------------------------------------------------------------------------
(* C9 *)

\* C9: when a run records, the written history maps the target version to
\* the effective minimum as a string; if the target version was a loaded key
\* the number of entries is unchanged, otherwise exactly one entry is added.
C9_RecordedEntry ==
    (Succeeded /\ Reported = NoteRecorded) =>
        /\ args.version \in KeySet(WrittenHistory)
        /\ dict_item(WrittenHistory, args.version) = EffectiveMinimum
        /\ EffectiveMinimum.kind = "str"
        /\ args.version \in KeySet(LoadedHistory) => Len(WrittenHistory) = Len(LoadedHistory)
        /\ args.version \notin KeySet(LoadedHistory) =>
              Len(WrittenHistory) = Len(LoadedHistory) + 1

\* forced recording of a new version whose minimum equals the latest recorded one
C9_Witness ==
    /\ Succeeded
    /\ Reported = NoteRecorded
    /\ args.record_every_release
    /\ LoadedHistory # <<>>
    /\ args.version \notin KeySet(LoadedHistory)
    /\ EffectiveMinimum = dict_item(LoadedHistory, GreatestKey(LoadedHistory))
    /\ Len(WrittenHistory) = Len(LoadedHistory) + 1

\* update in place without the flag: the value of a recorded key is overwritten
C9_WitnessUpdate ==
    /\ Succeeded
    /\ ~args.record_every_release
    /\ args.version \in KeySet(LoadedHistory)
    /\ dict_item(LoadedHistory, args.version) # dict_item(WrittenHistory, args.version)

----------------------------------------------------------------------------
(* C10 *)

============================================================================
